---- MODULE Spec2Model ----
(***************************************************************************)
(* A model of the voice agent's core:                                      *)
(*   - TranscribeClient.transcribe_audio_bytes / _transcribe_audio         *)
(*     (server/app/transcribe_client.py), one call driven step by step     *)
(*     through staging, the credential check, upload, job start, the poll  *)
(*     loop, the transcript fetch, the S3 cleanup and the finally block;   *)
(*   - VoiceAgent.process_text_input (server/app/voice_agent.py), the      *)
(*     decision tree over the intent classification.                       *)
(* External collaborators (S3, Transcribe, the transcript download, the    *)
(* file system, Bedrock, the data handler) answer nondeterministically:    *)
(* every call may return or raise.                                         *)
(*                                                                         *)
(* Strings are sequences of tokens, so that Python's substring test        *)
(* ("NoSuchBucket" in str(e)) and f-string concatenation are computed,     *)
(* not assumed: "NoSuchBucket" is <<"NoSuch", "Bucket">>, "AccessDenied"   *)
(* is <<"Access", "Denied">>, and a message may hold the halves apart.     *)
(***************************************************************************)
EXTENDS Integers, Sequences, FiniteSets, TLC

\* ------------------------------------------------------------------ bounds

\* Longest message (exception text, failure reason, transcript), in tokens.
MaxMsgLen == 4

\* The get_transcription_job calls counted and logged one by one; the poll
\* loop itself is not limited, later polls are folded into the last one.
MaxPolls == 3
\* Messages one websocket client sends.
MaxMessages == 3
\* Chunks one audio stream delivers.
MaxChunks == 3

\* ------------------------------------------------------- program constants

\* len(audio_data) < 100
MinAudioBytes == 100

\* --------------------------------------------------------------- strings

\* Python's None, and a key that a result dictionary does not hold.
None == <<"<None>">>
Absent == <<"<absent>">>

\* The halves of the two substrings the error handler looks for; a message
\* holds them in any order, so it may hold neither, one or both substrings.
Sym == {"NoSuch", "Bucket", "Access", "Denied"}

\* Every message of at most MaxMsgLen tokens.
Msgs == UNION {[1..n -> Sym] : n \in 0..MaxMsgLen}

\* Python's `needle in hay` on strings: needle is a contiguous part of hay.
Contains(hay, needle) ==
    \E i \in 0..(Len(hay) - Len(needle)) :
        SubSeq(hay, i + 1, i + Len(needle)) = needle

NoSuchBucket == <<"NoSuch", "Bucket">>
AccessDenied == <<"Access", "Denied">>

TooSmallText == <<"Audio data too small or invalid">>
TestTranscription ==
    <<"This is a test transcription. Please configure AWS credentials for real transcription.">>
BucketNotFoundText ==
    <<"S3 bucket not found. Please create the bucket or check configuration.">>
AccessDeniedText ==
    <<"Access denied. Please check AWS credentials and permissions.">>
CompletedNote == <<"Real-time transcription completed.">>

\* Strings that are only passed through (a transcript, the text of an exception
\* that no branch inspects): empty, plain, and one that names an error class.
Texts == {<<>>, <<"x">>, <<"Access", "Denied">>}

\* Payload sizes the caller may pass, around the threshold.
AudioLens == {0, 50, 99, 100, 150}

\* ----------------------------------------------------------------- state

VARIABLES
    op,             \* the entry point this session calls
    audioLen,       \* len(audio_data)
    accessKey,      \* Config.AWS_ACCESS_KEY_ID is set (truthy)
    secretKey,      \* Config.AWS_SECRET_ACCESS_KEY is set (truthy)
    tpc,            \* position of the transcribe_audio_bytes call
    staging,        \* how creating and writing the temporary file went
    tempFile,       \* the NamedTemporaryFile: "none", "exists", "removed"
    staged,         \* the object s3_key exists in the bucket
    calls,          \* the external calls made, in order
    nPolls,         \* get_transcription_job calls made
    transcription,  \* the local `transcription` of _transcribe_audio
    tres,           \* what transcribe_audio_bytes gave its caller
    xpc,            \* position of the process_text_input call
    intent,         \* intent_result, as analyze_intent returned it
    capital,        \* the local `capital` of process_text_input
    response,       \* the local `response` of process_text_input
    xres,           \* what process_text_input gave its caller
    round,          \* 1 in the first process_text_input call, 2 in the second
    first,          \* the first call: its collaborators' answers, its result
    vpc,            \* position of the process_voice_input call
    vres,           \* what process_voice_input gave its caller
    wpc,            \* position of the /ws handler
    connected,      \* the websocket client is still there
    received,       \* the messages receive_text returned: their lengths
    sends,          \* the send_json calls made, in order
    werr,           \* str(e) of the exception the inner except caught
    wend,           \* how the /ws handler ended
    spc,            \* position of the start_realtime_transcription generator
    requested,      \* chunks the generator asked audio_stream for
    consumed,       \* chunks audio_stream handed over
    out,            \* the items the generator yielded, in order
    cut,            \* the interruption, if any, and the counts at that time
    sdone,          \* how the generator finished
    cpc,            \* concurrent calls: the position of each
    ctemp,          \* temp_file_path of each call
    cjob,           \* job_name of each call
    ckey,           \* s3_key of each call
    cres,           \* what each call returned
    files,          \* the temporary directory: whose audio each path holds
    bucket,         \* the S3 bucket: whose audio each key holds
    jobs            \* the transcription jobs of the account, by name

tvars == <<audioLen, accessKey, secretKey, tpc, staging, tempFile, staged, calls,
           nPolls, transcription, tres>>

xvars == <<xpc, intent, capital, response, xres, round, first>>

vvars == <<vpc, vres>>

wvars == <<wpc, connected, received, sends, werr, wend>>

svars == <<spc, requested, consumed, out, cut, sdone>>

cvars == <<cpc, ctemp, cjob, ckey, cres, files, bucket, jobs>>

ovars == <<vvars, wvars, svars, cvars>>

vars == <<op, tvars, xvars, ovars>>

\* ------------------------------------------------- transcribe_audio_bytes

Call(name, outcome, detail) ==
    [name |-> name, outcome |-> outcome, detail |-> detail]

NoResult ==
    [kind |-> "pending", success |-> FALSE, transcription |-> Absent,
     error |-> Absent, note |-> Absent]

\* A threshold off by one.
TooSmallOffByOne(n) == n < MinAudioBytes - 1

\* len(audio_data) < 100
TooSmall(n) == n < MinAudioBytes

\* The early return for a payload that is too small.
InvalidAudioResult ==
    [kind |-> "returned", success |-> FALSE, transcription |-> None,
     error |-> TooSmallText, note |-> Absent]

\* transcribe_audio_bytes after _transcribe_audio returned `text`.
BytesReturn(text) ==
    [kind |-> "returned", success |-> TRUE, transcription |-> text,
     error |-> Absent, note |-> CompletedNote]

\* No handler: the exception reaches the caller.
BytesExceptPropagates(e) ==
    [kind |-> "raised", success |-> FALSE, transcription |-> Absent,
     error |-> e, note |-> Absent]

\* transcribe_audio_bytes' `except Exception as e`.
BytesExcept(e) ==
    [kind |-> "returned", success |-> FALSE, transcription |-> None,
     error |-> e, note |-> Absent]

\* `and` for `or`: the placeholder only when both keys are missing.
NoCredentialsBoth(ak, sk) == ~ak /\ ~sk

\* not Config.AWS_ACCESS_KEY_ID or not Config.AWS_SECRET_ACCESS_KEY
NoCredentials(ak, sk) == ~ak \/ ~sk

\* job_response['TranscriptionJob'].get('FailureReason', 'Unknown error')
FailureReason(r) == IF r = Absent THEN <<"Unknown error">> ELSE r

\* str(Exception(f"Transcription job failed: {error_message}"))
JobFailedException(r) == <<"Transcription job failed: ">> \o r

\* The two substring tests in the other order.
ErrorTextAccessFirst(e) ==
    IF Contains(e, AccessDenied) THEN AccessDeniedText
    ELSE IF Contains(e, NoSuchBucket) THEN BucketNotFoundText
    ELSE <<"Transcription failed: ">> \o e

\* The inner `except Exception as e` of _transcribe_audio: the string it returns.
ErrorText(e) ==
    IF Contains(e, NoSuchBucket) THEN BucketNotFoundText
    ELSE IF Contains(e, AccessDenied) THEN AccessDeniedText
    ELSE <<"Transcription failed: ">> \o e

\* The `finally` of _transcribe_audio: unlink the temporary file if it exists.
Finally(tf) == IF tf = "exists" THEN "removed" ELSE tf

\* _transcribe_audio returns `text` from inside the inner try: the finally
\* block runs, then transcribe_audio_bytes wraps the text.
Return(text) ==
    /\ tempFile' = Finally(tempFile)
    /\ tres' = BytesReturn(text)
    /\ tpc' = "done"


\* ------------------------------------------------------ process_text_input

\* Python truthiness of dict.get(key): a missing key, None and "" are falsy.
Truthy(v) == v \notin {Absent, None, <<>>}

\* dict.get(key): None when the key is missing.
Get(v) == IF v = Absent THEN None ELSE v

\* What analyze_intent may return: the "error" key missing, None, empty or a
\* message; is_capital_query missing, False or True; any query_type and entity.
IntentResults ==
    [error : {Absent, None, <<>>, <<"x">>, <<"Access", "Denied">>},
     is_capital_query : {Absent, <<"False">>, <<"True">>},
     query_type : {None, <<"country">>, <<"state">>},
     entity : {Absent, None, <<>>, <<"France">>, <<"Atlantis">>}]

\* intent_result.get("is_capital_query") is truthy.
IsCapitalQuery(ir) == ir.is_capital_query = <<"True">>

NoIntent ==
    [error |-> Absent, is_capital_query |-> Absent, query_type |-> None,
     entity |-> Absent]

\* What find_capital and generate_response may return.
Capitals == {None, <<>>, <<"Paris">>, <<"Austin">>}
Responses == {<<>>, <<"The capital of France is Paris.">>, <<"x">>}

IntentApology ==
    <<"I'm sorry, I'm having trouble processing your request right now.">>
ErrorApology ==
    <<"I'm sorry, I encountered an error processing your request.">>
NoEntityText ==
    <<"I'm sorry, I couldn't understand which country or state you're asking about.">>
\* Config.UNSUPPORTED_QUERY_RESPONSE
UnsupportedQueryResponse == <<"UNSUPPORTED_QUERY_RESPONSE">>

NoTextResult ==
    [kind |-> "pending", response |-> Absent, success |-> FALSE,
     query_type |-> Absent, entity |-> Absent, capital |-> Absent,
     error |-> Absent]

\* if intent_result.get("error"): the failure result with the reported error.
IntentErrorResult(ir) ==
    [kind |-> "returned", response |-> IntentApology, success |-> FALSE,
     query_type |-> Absent, entity |-> Absent, capital |-> Absent,
     error |-> ir.error]

\* The entity reported back as the dataset's lower-case key.
FoundResultNormalized(r, ir, c) ==
    [kind |-> "returned", response |-> r, success |-> TRUE,
     query_type |-> Get(ir.query_type),
     entity |-> IF ir.entity = <<"France">> THEN <<"france">>
                ELSE Get(ir.entity),
     capital |-> c, error |-> Absent]

\* The capital was found and generate_response returned r.
FoundResult(r, ir, c) ==
    [kind |-> "returned", response |-> r, success |-> TRUE,
     query_type |-> Get(ir.query_type), entity |-> Get(ir.entity),
     capital |-> c, error |-> Absent]

\* An unknown entity reported as a failure.
NotFoundAsFailure(ir) ==
    [kind |-> "returned",
     response |-> <<"I'm sorry, I don't have information about the capital of ">>
                  \o Get(ir.entity) \o <<".">>,
     success |-> FALSE, query_type |-> Get(ir.query_type),
     entity |-> Get(ir.entity), capital |-> None, error |-> <<"not found">>]

\* find_capital returned nothing.
NotFoundResult(ir) ==
    [kind |-> "returned",
     response |-> <<"I'm sorry, I don't have information about the capital of ">>
                  \o Get(ir.entity) \o <<".">>,
     success |-> TRUE, query_type |-> Get(ir.query_type),
     entity |-> Get(ir.entity), capital |-> None, error |-> Absent]

\* A capital query with no entity.
NoEntityResult ==
    [kind |-> "returned", response |-> NoEntityText, success |-> TRUE,
     query_type |-> <<"unknown">>, entity |-> None, capital |-> None,
     error |-> Absent]

\* Not a capital query.
UnsupportedResult ==
    [kind |-> "returned", response |-> UnsupportedQueryResponse,
     success |-> TRUE, query_type |-> <<"other">>, entity |-> None,
     capital |-> None, error |-> Absent]

\* process_text_input's `except Exception as e`.
TextExcept(e) ==
    [kind |-> "returned", response |-> ErrorApology, success |-> FALSE,
     query_type |-> Absent, entity |-> Absent, capital |-> Absent,
     error |-> e]

\* if intent_result.get("error"):
ReportsError(ir) == Truthy(ir.error)

\* The entity tested before is_capital_query.
DecideEntityFirst(ir) ==
    IF ReportsError(ir) THEN IntentErrorResult(ir)
    ELSE IF Truthy(ir.entity) THEN NoTextResult
    ELSE IF IsCapitalQuery(ir) THEN NoEntityResult
    ELSE UnsupportedResult

\* A text that was asked before is refused.
DecideRepeatRefused(ir) ==
    IF ReportsError(ir) THEN IntentErrorResult(ir)
    ELSE IF round = 2 THEN UnsupportedResult
    ELSE IF IsCapitalQuery(ir)
         THEN IF Truthy(ir.entity) THEN NoTextResult ELSE NoEntityResult
         ELSE UnsupportedResult

\* The error tested only when the text is not a capital query.
DecideErrorLast(ir) ==
    IF IsCapitalQuery(ir)
    THEN IF Truthy(ir.entity) THEN NoTextResult ELSE NoEntityResult
    ELSE IF ReportsError(ir) THEN IntentErrorResult(ir)
    ELSE UnsupportedResult

\* The branch taken on intent_result, up to the next external call: no result
\* yet when find_capital is to be called, else the result returned at once.
Decide(ir) ==
    IF ReportsError(ir) THEN IntentErrorResult(ir)
    ELSE IF IsCapitalQuery(ir)
         THEN IF Truthy(ir.entity) THEN NoTextResult ELSE NoEntityResult
         ELSE UnsupportedResult

NoFirst ==
    [calls |-> <<>>, intent |-> NoIntent, capital |-> None, response |-> None,
     xres |-> NoTextResult]

\* The collaborators are deterministic: a collaborator the first call used
\* answers the second call with the same text in the same way, returning the
\* same value (`same`) or raising the same exception e.
Deterministic(name, outcome, e, same) ==
    (/\ round = 2
     /\ \E i \in DOMAIN first.calls : first.calls[i].name = name)
    => \E i \in DOMAIN first.calls :
           /\ first.calls[i].name = name
           /\ first.calls[i].outcome = outcome
           /\ IF outcome = "raised" THEN first.calls[i].detail = e ELSE same

\* intent_result = await self.bedrock_client.analyze_intent(text), and the
\* branches on it.
analyze_intent ==
    /\ op = "text"
    /\ xpc = "call"
    /\ \/ \E ir \in IntentResults :
            /\ Deterministic("analyze_intent", "ok", None, ir = first.intent)
            /\ calls' = Append(calls, Call("analyze_intent", "ok", None))
            /\ intent' = ir
            /\ xres' = Decide(ir)
            /\ xpc' = IF Decide(ir).kind = "pending" THEN "lookup" ELSE "done"
       \/ \E e \in Texts :
            /\ Deterministic("analyze_intent", "raised", e, TRUE)
            /\ calls' = Append(calls, Call("analyze_intent", "raised", e))
            /\ xres' = TextExcept(e)
            /\ xpc' = "done"
            /\ UNCHANGED intent
    /\ UNCHANGED <<ovars, op, audioLen, accessKey, secretKey, tpc, staging, tempFile,
                   staged, nPolls, transcription, tres, capital, response,
                   round, first>>

\* capital = self.data_handler.find_capital(entity), and `if capital:`.
find_capital ==
    /\ xpc = "lookup"
    /\ \/ \E c \in Capitals :
            /\ Deterministic("find_capital", "ok", None, c = first.capital)
            /\ calls' = Append(calls, Call("find_capital", "ok", intent.entity))
            /\ capital' = c
            /\ IF Truthy(c)
               THEN /\ xpc' = "generate"
                    /\ UNCHANGED xres
               ELSE /\ xres' = NotFoundResult(intent)
                    /\ xpc' = "done"
       \/ \E e \in Texts :
            /\ Deterministic("find_capital", "raised", e, TRUE)
            /\ calls' = Append(calls, Call("find_capital", "raised", e))
            /\ xres' = TextExcept(e)
            /\ xpc' = "done"
            /\ UNCHANGED capital
    /\ UNCHANGED <<ovars, op, audioLen, accessKey, secretKey, tpc, staging, tempFile,
                   staged, nPolls, transcription, tres, intent, response,
                   round, first>>

\* The arguments (query_type, entity, capital) handed to generate_response,
\* one after the other.
GenerateArgs(ir, c) == Get(ir.query_type) \o Get(ir.entity) \o c

\* response = await self.bedrock_client.generate_response(query_type, entity,
\* capital), and the result built from it.
generate_response ==
    /\ xpc = "generate"
    /\ \/ \E r \in Responses :
            /\ Deterministic("generate_response", "ok", None,
                             r = first.response)
            /\ calls' = Append(calls, Call("generate_response", "ok",
                                           GenerateArgs(intent, capital)))
            /\ response' = r
            /\ xres' = FoundResult(r, intent, capital)
       \/ \E e \in Texts :
            /\ Deterministic("generate_response", "raised", e, TRUE)
            /\ calls' = Append(calls, Call("generate_response", "raised", e))
            /\ xres' = TextExcept(e)
            /\ UNCHANGED response
    /\ xpc' = "done"
    /\ UNCHANGED <<ovars, op, audioLen, accessKey, secretKey, tpc, staging, tempFile,
                   staged, nPolls, transcription, tres, intent, capital,
                   round, first>>

\* The caller calls process_text_input a second time with the same text.
\* The VoiceAgent keeps nothing of the first call: the second starts as the
\* first did.
call_again ==
    /\ op = "text" /\ xpc = "done" /\ round = 1
    /\ first' = [calls |-> calls, intent |-> intent, capital |-> capital,
                 response |-> response, xres |-> xres]
    /\ round' = 2
    /\ calls' = <<>>
    /\ xpc' = "call"
    /\ intent' = NoIntent
    /\ capital' = None
    /\ response' = None
    /\ xres' = NoTextResult
    /\ UNCHANGED <<ovars, op, audioLen, accessKey, secretKey, tpc, staging,
                   tempFile, staged, nPolls, transcription, tres>>

\* ----------------------------------------------------- process_voice_input

NoVoiceResult ==
    [kind |-> "pending", response |-> Absent, success |-> FALSE,
     error |-> Absent, transcribed_text |-> Absent]

\* The dictionary process_voice_input returns, whatever audio_data holds.
VoiceNotImplemented ==
    [kind |-> "returned",
     response |-> <<"Voice processing not yet implemented.">>,
     success |-> FALSE,
     error |-> <<"Voice processing not implemented in Phase 1">>,
     transcribed_text |-> Absent]

\* VoiceAgent.process_voice_input(audio_data): no collaborator is called.
process_voice_input ==
    /\ op = "voice" /\ vpc = "call"
    /\ vres' = VoiceNotImplemented
    /\ vpc' = "done"
    /\ UNCHANGED <<cvars, op, tvars, xvars, wvars, svars>>

\* ----------------------------------------------------- websocket_endpoint

\* The lengths of the text messages a client sends (base64 characters).
WireLens == {2, 4, 5}

\* decode_base64_audio: the length of the text after the '=' padding is added.
Padded(n) ==
    LET padding == 4 - (n % 4)
    IN  IF padding # 4 THEN n + padding ELSE n

\* base64.b64decode rejects a text that needed three padding characters, and
\* decode_base64_audio turns that into an HTTPException.
DecodeRaises(n) == Padded(n) - n = 3

\* str(e) of that HTTPException.
DecodeErrorText == <<"400: Invalid base64 audio data">>

\* How send_json may go once the client is gone: the framework raises
\* WebSocketDisconnect, raises another exception, or drops the message.
SendFailures == {"WebSocketDisconnect", "RuntimeError", "dropped"}

\* One send_json call: the message it answers, the JSON body, how it went.
Sent(k, body, outcome) == [to |-> k, body |-> body, outcome |-> outcome]

\* The body the inner `except Exception as e` sends.
ErrorReply(e) ==
    [kind |-> "returned", response |-> Absent, success |-> FALSE,
     error |-> e, transcribed_text |-> Absent]

\* The client goes away; the handler learns of it at its next await.
client_disconnect ==
    /\ op = "ws" /\ wpc # "ended" /\ connected
    /\ connected' = FALSE
    /\ UNCHANGED <<cvars, op, tvars, xvars, vvars, svars, wpc, received, sends, werr,
                   wend>>

\* data = await websocket.receive_text(): a message, or WebSocketDisconnect,
\* which the outer except catches.
receive_text ==
    /\ op = "ws" /\ wpc = "receive"
    /\ \/ /\ connected /\ Len(received) < MaxMessages
          /\ \E n \in WireLens : received' = Append(received, n)
          /\ wpc' = "process"
          /\ UNCHANGED wend
       \/ /\ ~connected
          /\ wpc' = "ended"
          /\ wend' = "disconnected"
          /\ UNCHANGED received
    /\ UNCHANGED <<cvars, op, tvars, xvars, vvars, svars, connected, sends, werr>>

\* The inner try: decode, process_voice_input, send_json(result).
handle_message ==
    /\ op = "ws" /\ wpc = "process"
    /\ LET k == Len(received)
       IN  IF DecodeRaises(received[k])
           THEN /\ werr' = DecodeErrorText
                /\ wpc' = "error_reply"
                /\ UNCHANGED sends
           ELSE \/ /\ connected
                   /\ sends' = Append(sends,
                                  Sent(k, VoiceNotImplemented, "delivered"))
                   /\ wpc' = "receive"
                   /\ UNCHANGED werr
                \/ /\ ~connected
                   /\ \E x \in SendFailures :
                        /\ sends' = Append(sends,
                                       Sent(k, VoiceNotImplemented, x))
                        /\ IF x = "dropped"
                           THEN wpc' = "receive" /\ UNCHANGED werr
                           ELSE wpc' = "error_reply" /\ werr' = <<x>>
    /\ UNCHANGED <<cvars, op, tvars, xvars, vvars, svars, connected, received, wend>>

\* The inner except: send_json({"success": False, "error": str(e)}). What it
\* raises leaves the inner try; the outer except catches WebSocketDisconnect
\* only.
error_reply ==
    /\ op = "ws" /\ wpc = "error_reply"
    /\ LET k == Len(received)
       IN  \/ /\ connected
              /\ sends' = Append(sends, Sent(k, ErrorReply(werr), "delivered"))
              /\ wpc' = "receive"
              /\ UNCHANGED wend
           \/ /\ ~connected
              /\ \E x \in SendFailures :
                   /\ sends' = Append(sends, Sent(k, ErrorReply(werr), x))
                   /\ IF x = "dropped"
                      THEN wpc' = "receive" /\ UNCHANGED wend
                      ELSE /\ wpc' = "ended"
                           /\ wend' = IF x = "WebSocketDisconnect"
                                       THEN "disconnected" ELSE "raised"
    /\ UNCHANGED <<cvars, op, tvars, xvars, vvars, svars, connected, received, werr>>

\* --------------------------------------------- start_realtime_transcription

Placeholder == <<"Real-time transcription placeholder">>

NoCut == [why |-> "none", emitted |-> 0, consumed |-> 0]

\* The generator is interrupted now, unless it was before.
Cut(why) ==
    IF cut.why = "none"
    THEN [why |-> why, emitted |-> Len(out), consumed |-> consumed]
    ELSE cut

\* Two increments, a partial and a final one, for one chunk.
EmitTwice(o, k) ==
    o \o << [item |-> Placeholder, chunk |-> k],
            [item |-> Placeholder, chunk |-> k] >>

\* yield "Real-time transcription placeholder", for chunk number k.
Emit(o, k) == Append(o, [item |-> Placeholder, chunk |-> k])

\* The consumer asks for the next item. A generator not yet started or
\* suspended in the loop body goes on to ask audio_stream for a chunk; one
\* suspended in the except block runs to its end.
anext ==
    /\ op = "stream" /\ spc \in {"created", "yielded", "yielded_error"}
    /\ IF spc = "yielded_error"
       THEN /\ spc' = "finished"
            /\ sdone' = "after_error"
            /\ UNCHANGED requested
       ELSE /\ spc' = "awaiting_chunk"
            /\ requested' = requested + 1
            /\ UNCHANGED sdone
    /\ UNCHANGED <<cvars, op, tvars, xvars, vvars, wvars, consumed, out, cut>>

\* async for audio_chunk in audio_stream: the stream hands over a chunk.
audio_chunk ==
    /\ op = "stream" /\ spc = "awaiting_chunk"
    /\ consumed < MaxChunks
    /\ consumed' = consumed + 1
    /\ spc' = "sleeping"
    /\ UNCHANGED <<cvars, op, tvars, xvars, vvars, wvars, requested, out, cut, sdone>>

\* The stream ends: the loop and the generator end.
stream_ends ==
    /\ op = "stream" /\ spc = "awaiting_chunk"
    /\ spc' = "finished"
    /\ sdone' = "ended"
    /\ UNCHANGED <<cvars, op, tvars, xvars, vvars, wvars, requested, consumed, out,
                   cut>>

\* The stream raises: `except Exception as e` yields the error string.
stream_raises ==
    /\ op = "stream" /\ spc = "awaiting_chunk"
    /\ \E e \in Texts :
         out' = Append(out, [item |-> <<"Transcription error: ">> \o e,
                             chunk |-> 0])
    /\ cut' = Cut("stream_raised")
    /\ spc' = "yielded_error"
    /\ UNCHANGED <<cvars, op, tvars, xvars, vvars, wvars, requested, consumed, sdone>>

\* await asyncio.sleep(0.1) returns and the placeholder is yielded.
chunk_sleep ==
    /\ op = "stream" /\ spc = "sleeping"
    /\ out' = Emit(out, consumed)
    /\ spc' = "yielded"
    /\ UNCHANGED <<cvars, op, tvars, xvars, vvars, wvars, requested, consumed, cut,
                   sdone>>

\* The consumer closes the generator: GeneratorExit is raised at the yield
\* where it is suspended; `except Exception` does not catch it.
aclose ==
    /\ op = "stream" /\ spc \in {"created", "yielded", "yielded_error"}
    /\ cut' = Cut("closed")
    /\ spc' = "finished"
    /\ sdone' = "closed"
    /\ UNCHANGED <<cvars, op, tvars, xvars, vvars, wvars, requested, consumed, out>>

\* The consuming task is cancelled while the generator awaits the stream or
\* sleeps: CancelledError is not an Exception and passes the except clause.
cancel ==
    /\ op = "stream" /\ spc \in {"awaiting_chunk", "sleeping"}
    /\ cut' = Cut("cancelled")
    /\ spc' = "finished"
    /\ sdone' = "cancelled"
    /\ UNCHANGED <<cvars, op, tvars, xvars, vvars, wvars, requested, consumed, out>>

\* ------------------------------------- concurrent transcribe_audio_bytes

\* The transcribe_audio_bytes calls in flight on one TranscribeClient, each
\* with at least 100 bytes of its own audio and with credentials configured.
Calls == {"A", "B"}

\* Values of uuid.uuid4().hex[:8]: eight hexadecimal digits, drawn at random
\* for job_name and again for file_name by every call.
Names == {"0000000a", "0000000b"}

\* Paths tempfile.NamedTemporaryFile may pick; it picks one that is not there.
TempPaths == {"tmp1.wav", "tmp2.wav"}

NoJob == [media |-> "none", status |-> "none", transcript |-> "none"]

\* A call returns r (a transcript is named by the call whose audio it is of)
\* after its `finally` unlinked temp_file_path, if that path exists.
CReturn(p, r) ==
    /\ files' = [files EXCEPT ![ctemp[p]] = "none"]
    /\ cres' = [cres EXCEPT ![p] = r]
    /\ cpc' = [cpc EXCEPT ![p] = "done"]

\* NamedTemporaryFile(delete=False) and write; job_name, file_name, s3_key.
c_stage(p) ==
    /\ op = "concurrent" /\ cpc[p] = "call"
    /\ \E f \in TempPaths :
         /\ files[f] = "none"
         /\ files' = [files EXCEPT ![f] = p]
         /\ ctemp' = [ctemp EXCEPT ![p] = f]
    /\ \E j \in Names : cjob' = [cjob EXCEPT ![p] = j]
    /\ \E k \in Names : ckey' = [ckey EXCEPT ![p] = k]
    /\ cpc' = [cpc EXCEPT ![p] = "upload"]
    /\ UNCHANGED <<op, tvars, xvars, vvars, wvars, svars, cres, bucket, jobs>>

\* upload_file(temp_file_path, bucket, s3_key): the object under s3_key now
\* holds what the file holds, whatever was there before.
c_upload_file(p) ==
    /\ op = "concurrent" /\ cpc[p] = "upload"
    /\ \/ /\ bucket' = [bucket EXCEPT ![ckey[p]] = files[ctemp[p]]]
          /\ cpc' = [cpc EXCEPT ![p] = "start"]
          /\ UNCHANGED <<files, cres>>
       \/ /\ CReturn(p, "error text")
          /\ UNCHANGED bucket
    /\ UNCHANGED <<op, tvars, xvars, vvars, wvars, svars, ctemp, cjob, ckey,
                   jobs>>

\* start_transcription_job(TranscriptionJobName=job_name, Media=s3_key): the
\* service refuses a name it already has a job for.
c_start_transcription_job(p) ==
    /\ op = "concurrent" /\ cpc[p] = "start"
    /\ \/ /\ jobs[cjob[p]].status = "none"
          /\ jobs' = [jobs EXCEPT ![cjob[p]] =
                         [media |-> ckey[p], status |-> "IN_PROGRESS",
                          transcript |-> "none"]]
          /\ cpc' = [cpc EXCEPT ![p] = "poll"]
          /\ UNCHANGED <<files, cres>>
       \/ /\ CReturn(p, "error text")
          /\ UNCHANGED jobs
    /\ UNCHANGED <<op, tvars, xvars, vvars, wvars, svars, ctemp, cjob, ckey,
                   bucket>>

\* Amazon Transcribe works on job j: it reads the media object and
\* transcribes what it holds, or fails when the object is not there.
transcribe_service(j) ==
    /\ op = "concurrent" /\ jobs[j].status = "IN_PROGRESS"
    /\ jobs' = [jobs EXCEPT ![j] =
                   IF bucket[jobs[j].media] = "none"
                   THEN [@ EXCEPT !.status = "FAILED"]
                   ELSE [@ EXCEPT !.status = "COMPLETED",
                                  !.transcript = bucket[jobs[j].media]]]
    /\ UNCHANGED <<op, tvars, xvars, vvars, wvars, svars, cpc, ctemp, cjob,
                   ckey, cres, files, bucket>>

\* get_transcription_job(TranscriptionJobName=job_name) and the branch on the
\* status; on COMPLETED the transcript is downloaded.
c_get_transcription_job(p) ==
    /\ op = "concurrent" /\ cpc[p] = "poll"
    /\ \/ /\ jobs[cjob[p]].status = "IN_PROGRESS"
          /\ cpc' = [cpc EXCEPT ![p] = "sleep"]
          /\ UNCHANGED <<files, cres>>
       \/ /\ jobs[cjob[p]].status = "COMPLETED"
          /\ cpc' = [cpc EXCEPT ![p] = "delete"]
          /\ UNCHANGED <<files, cres>>
       \/ /\ jobs[cjob[p]].status = "FAILED"
          /\ CReturn(p, "error text")
       \/ CReturn(p, "error text")
    /\ UNCHANGED <<op, tvars, xvars, vvars, wvars, svars, ctemp, cjob, ckey,
                   bucket, jobs>>

\* await asyncio.sleep(2)
c_sleep(p) ==
    /\ op = "concurrent" /\ cpc[p] = "sleep"
    /\ cpc' = [cpc EXCEPT ![p] = "poll"]
    /\ UNCHANGED <<op, tvars, xvars, vvars, wvars, svars, ctemp, cjob, ckey,
                   cres, files, bucket, jobs>>

\* delete_object(Key=s3_key), which may raise, and `return transcription`.
c_delete_object(p) ==
    /\ op = "concurrent" /\ cpc[p] = "delete"
    /\ \/ bucket' = [bucket EXCEPT ![ckey[p]] = "none"]
       \/ UNCHANGED bucket
    /\ CReturn(p, jobs[cjob[p]].transcript)
    /\ UNCHANGED <<op, tvars, xvars, vvars, wvars, svars, ctemp, cjob, ckey,
                   jobs>>

\* ------------------------------------------------------------ the session

Init ==
    /\ op \in {"transcribe", "text", "voice", "ws", "stream", "concurrent"}
    /\ audioLen \in (IF op \in {"transcribe", "voice"} THEN AudioLens ELSE {0})
    /\ accessKey \in (IF op = "concurrent" THEN {TRUE} ELSE BOOLEAN)
    /\ secretKey \in (IF op = "concurrent" THEN {TRUE} ELSE BOOLEAN)
    /\ tpc = "call"
    /\ staging = "none"
    /\ tempFile = "none"
    /\ staged = FALSE
    /\ calls = <<>>
    /\ nPolls = 0
    /\ transcription = None
    /\ tres = NoResult
    /\ xpc = "call"
    /\ intent = NoIntent
    /\ capital = None
    /\ response = None
    /\ xres = NoTextResult
    /\ round = 1
    /\ first = NoFirst
    /\ vpc = "call"
    /\ vres = NoVoiceResult
    /\ wpc = "receive"
    /\ connected = TRUE
    /\ received = <<>>
    /\ sends = <<>>
    /\ werr = None
    /\ wend = "running"
    /\ spc = "created"
    /\ requested = 0
    /\ consumed = 0
    /\ out = <<>>
    /\ cut = NoCut
    /\ sdone = "running"
    /\ cpc = [p \in Calls |-> "call"]
    /\ ctemp = [p \in Calls |-> "none"]
    /\ cjob = [p \in Calls |-> "none"]
    /\ ckey = [p \in Calls |-> "none"]
    /\ cres = [p \in Calls |-> "pending"]
    /\ files = [f \in TempPaths |-> "none"]
    /\ bucket = [k \in Names |-> "none"]
    /\ jobs = [j \in Names |-> NoJob]

\* The size check at the head of transcribe_audio_bytes.
Validate ==
    /\ op = "transcribe"
    /\ tpc = "call"
    /\ IF TooSmall(audioLen)
       THEN /\ tres' = InvalidAudioResult
            /\ tpc' = "done"
       ELSE /\ tpc' = "stage"
            /\ UNCHANGED tres
    /\ UNCHANGED <<xvars, ovars, op, staging, audioLen, accessKey, secretKey,
                   tempFile, staged, calls, nPolls, transcription>>

\* with tempfile.NamedTemporaryFile(suffix='.wav', delete=False) as temp_file:
\*     temp_file.write(audio_data); temp_file_path = temp_file.name
\* Creating the file may raise (nothing is created); writing or closing it may
\* raise (the file, made with delete=False, stays, and the inner try/finally is
\* never entered). Either exception passes the outer `except ... raise e` and
\* reaches transcribe_audio_bytes' handler.
StageTempFile ==
    /\ tpc = "stage"
    /\ \/ \E e \in Texts :
            /\ staging' = "create_raised"
            /\ tres' = BytesExcept(e)
            /\ tpc' = "done"
            /\ UNCHANGED tempFile
       \/ \E e \in Texts :
            /\ staging' = "write_raised"
            /\ tempFile' = "exists"
            /\ tres' = BytesExcept(e)
            /\ tpc' = "done"
       \/ /\ staging' = "ok"
          /\ tempFile' = "exists"
          /\ tpc' = "creds"
          /\ UNCHANGED tres
    /\ UNCHANGED <<xvars, ovars, op, audioLen, accessKey, secretKey, staged, calls,
                   nPolls, transcription>>

\* The credential check: the placeholder, or on to the real transcription.
CheckCredentials ==
    /\ tpc = "creds"
    /\ IF NoCredentials(accessKey, secretKey)
       THEN Return(TestTranscription)
       ELSE /\ tpc' = "upload"
            /\ UNCHANGED <<tempFile, tres>>
    /\ UNCHANGED <<xvars, ovars, op, staging, audioLen, accessKey, secretKey, staged,
                   calls, nPolls, transcription>>

\* self.s3_client.upload_file(temp_file_path, Config.S3_BUCKET_NAME, s3_key)
upload_file ==
    /\ tpc = "upload"
    /\ \/ /\ calls' = Append(calls, Call("upload_file", "ok", None))
          /\ staged' = TRUE
          /\ tpc' = "start"
          /\ UNCHANGED <<tempFile, tres>>
       \/ \E e \in Msgs :
            /\ calls' = Append(calls, Call("upload_file", "raised", e))
            /\ Return(ErrorText(e))
            /\ UNCHANGED staged
    /\ UNCHANGED <<xvars, ovars, op, staging, audioLen, accessKey, secretKey, nPolls,
                   transcription>>

\* self.client.start_transcription_job(...)
start_transcription_job ==
    /\ tpc = "start"
    /\ \/ /\ calls' = Append(calls, Call("start_transcription_job", "ok", None))
          /\ tpc' = "poll"
          /\ UNCHANGED <<tempFile, tres>>
       \/ \E e \in Msgs :
            /\ calls' = Append(calls, Call("start_transcription_job", "raised", e))
            /\ Return(ErrorText(e))
    /\ UNCHANGED <<xvars, ovars, op, staging, audioLen, accessKey, secretKey, staged,
                   nPolls, transcription>>

\* The log after one more get_transcription_job: the first MaxPolls polls are
\* appended, a later one takes the place of the poll before it.
RecordPoll(c) ==
    IF nPolls < MaxPolls THEN Append(calls, c)
    ELSE [calls EXCEPT ![Len(calls)] = c]

CountPoll == IF nPolls < MaxPolls THEN nPolls + 1 ELSE nPolls

\* get_transcription_job reports a status that is neither COMPLETED nor
\* FAILED: the loop goes on to asyncio.sleep(2).
PollInProgress ==
    /\ tpc = "poll"
    /\ calls' = RecordPoll(Call("get_transcription_job", "IN_PROGRESS", None))
    /\ nPolls' = CountPoll
    /\ tpc' = "sleep"
    /\ UNCHANGED <<xvars, ovars, op, staging, audioLen, accessKey, secretKey,
                   tempFile, staged, transcription, tres>>

\* The status compared with a string the service never sends: COMPLETED is
\* one more status to wait on.
OnCompletedKeepPolling ==
    /\ tpc' = "sleep"
    /\ UNCHANGED <<tempFile, tres>>

\* status == 'COMPLETED': on to the transcript.
OnCompleted ==
    /\ tpc' = "fetch"
    /\ UNCHANGED <<tempFile, tres>>

\* A failed job is submitted again.
OnFailedRestart(r) ==
    /\ tpc' = "start"
    /\ UNCHANGED <<tempFile, tres>>

\* status == 'FAILED' with FailureReason r: the raise of line 173, caught by
\* the inner handler.
OnFailed(r) == Return(ErrorText(JobFailedException(FailureReason(r))))

\* get_transcription_job raises, or reports COMPLETED or FAILED.
PollTerminal ==
    /\ tpc = "poll"
    /\ nPolls' = CountPoll
    /\ \/ /\ calls' =
               RecordPoll(Call("get_transcription_job", "COMPLETED", None))
          /\ OnCompleted
       \/ \E r \in Msgs \cup {Absent} :
            /\ calls' = RecordPoll(Call("get_transcription_job", "FAILED", r))
            /\ OnFailed(r)
       \/ \E e \in Msgs :
            /\ calls' = RecordPoll(Call("get_transcription_job", "raised", e))
            /\ Return(ErrorText(e))
    /\ UNCHANGED <<xvars, ovars, op, staging, audioLen, accessKey, secretKey, staged,
                   transcription>>

\* await asyncio.sleep(2), then the next turn of `while True`.
Sleep ==
    /\ tpc = "sleep"
    /\ tpc' = "poll"
    /\ UNCHANGED <<xvars, ovars, op, staging, audioLen, accessKey, secretKey,
                   tempFile, staged, calls, nPolls, transcription, tres>>

\* requests.get(transcript_uri).json()['results']['transcripts'][0]['transcript']
fetch_transcript ==
    /\ tpc = "fetch"
    /\ \/ \E t \in Texts :
            /\ calls' = Append(calls, Call("fetch_transcript", "ok", None))
            /\ transcription' = t
            /\ tpc' = "delete"
            /\ UNCHANGED <<tempFile, tres>>
       \/ \E e \in Msgs :
            /\ calls' = Append(calls, Call("fetch_transcript", "raised", e))
            /\ Return(ErrorText(e))
            /\ UNCHANGED transcription
    /\ UNCHANGED <<xvars, ovars, op, staging, audioLen, accessKey, secretKey, staged,
                   nPolls>>

\* delete_object without a try/except of its own: what it raises reaches the
\* inner handler of _transcribe_audio.
delete_object_escalates ==
    /\ tpc = "delete"
    /\ \/ /\ calls' = Append(calls, Call("delete_object", "ok", None))
          /\ staged' = FALSE
          /\ Return(transcription)
       \/ /\ calls' = Append(calls, Call("delete_object", "raised", None))
          /\ UNCHANGED staged
          /\ Return(ErrorText(AccessDenied))
    /\ UNCHANGED <<xvars, ovars, op, staging, audioLen, accessKey, secretKey, nPolls,
                   transcription>>

\* self.s3_client.delete_object(Bucket=..., Key=s3_key) in its own try/except
\* (a failure is printed), then `return transcription`.
delete_object ==
    /\ tpc = "delete"
    /\ \/ /\ calls' = Append(calls, Call("delete_object", "ok", None))
          /\ staged' = FALSE
       \/ /\ calls' = Append(calls, Call("delete_object", "raised", None))
          /\ UNCHANGED staged
    /\ Return(transcription)
    /\ UNCHANGED <<xvars, ovars, op, staging, audioLen, accessKey, secretKey, nPolls,
                   transcription>>

Next ==
    \/ Validate
    \/ StageTempFile
    \/ CheckCredentials
    \/ upload_file
    \/ start_transcription_job
    \/ PollInProgress
    \/ PollTerminal
    \/ Sleep
    \/ fetch_transcript
    \/ delete_object
    \/ analyze_intent
    \/ find_capital
    \/ generate_response
    \/ call_again
    \/ process_voice_input
    \/ client_disconnect
    \/ receive_text
    \/ handle_message
    \/ error_reply
    \/ anext
    \/ audio_chunk
    \/ stream_ends
    \/ stream_raises
    \/ chunk_sleep
    \/ aclose
    \/ cancel
    \/ \E p \in Calls : c_stage(p)
    \/ \E p \in Calls : c_upload_file(p)
    \/ \E p \in Calls : c_start_transcription_job(p)
    \/ \E j \in Names : transcribe_service(j)
    \/ \E p \in Calls : c_get_transcription_job(p)
    \/ \E p \in Calls : c_sleep(p)
    \/ \E p \in Calls : c_delete_object(p)

Spec == Init /\ [][Next]_vars

\* The event loop resumes the coroutine after asyncio.sleep and the blocking
\* calls after the loop run on (weak fairness of these steps), and the
\* transcription service eventually answers a poll with COMPLETED or FAILED,
\* or the poll raises (strong fairness: a poll is only possible every other
\* step).
LiveSpec ==
    /\ Spec
    /\ WF_vars(Sleep)
    /\ SF_vars(PollTerminal)
    /\ WF_vars(fetch_transcript)
    /\ WF_vars(delete_object)

\* ------------------------------------------------------------- properties

\* The transcribe_audio_bytes call has returned to its caller.
TDone == op = "transcribe" /\ tpc = "done"

\* The process_text_input call got a classification and has returned.
XDone == op = "text" /\ xpc = "done"

Made(name) == \E i \in DOMAIN calls : calls[i].name = name

Classified == Len(calls) > 0 /\ calls[1] = Call("analyze_intent", "ok", None)

\* C1: with at least 100 bytes and credentials configured, when the upload,
\* the job start, a poll or the transcript fetch raises, or the job is reported
\* FAILED, the result is success=false, transcription=null and an error message.
C1_FailureIsReported ==
    (/\ TDone
     /\ audioLen >= 100 /\ accessKey /\ secretKey
     /\ \E i \in DOMAIN calls :
            /\ calls[i].name \in {"upload_file", "start_transcription_job",
                                  "get_transcription_job", "fetch_transcript"}
            /\ calls[i].outcome \in {"raised", "FAILED"})
    => (/\ tres.kind = "returned"
        /\ tres.success = FALSE
        /\ tres.transcription = None
        /\ tres.error \notin {None, Absent})

\* C2: a payload shorter than 100 bytes is rejected with success=false, the
\* error "Audio data too small or invalid" and transcription=null; no temporary
\* file is created and no call to S3 or to the transcription service is made.
C2_TooSmallRejected ==
    (op = "transcribe" /\ audioLen < 100)
    => (/\ staging = "none" /\ tempFile = "none"
        /\ calls = <<>> /\ ~staged
        /\ tpc \in {"call", "done"}
        /\ tpc = "done" =>
              /\ tres.kind = "returned"
              /\ tres.success = FALSE
              /\ tres.error = <<"Audio data too small or invalid">>
              /\ tres.transcription = None)

C2_Witness == TDone /\ audioLen = 99 /\ tres.kind = "returned"

\* C3: once upload_file has succeeded, a delete_object is attempted before
\* the call returns, on every outcome.
C3_DeleteAttempted ==
    (TDone /\ \E i \in DOMAIN calls :
                 calls[i].name = "upload_file" /\ calls[i].outcome = "ok")
    => Made("delete_object")

\* C4: when transcribe_audio_bytes returns, the temporary file it created no
\* longer exists, on every exit path.
C4_TempFileGone == TDone => tempFile # "exists"

\* C5: a call that started a transcription job eventually returns a result.
C5_PollingEnds ==
    (op = "transcribe" /\ tpc \in {"poll", "sleep"})
    ~> (tpc = "done" /\ tres.kind = "returned")

C5_Witness ==
    /\ TDone /\ tres.kind = "returned" /\ nPolls >= 2
    /\ calls[Len(calls)].name \in {"delete_object", "get_transcription_job"}

\* C6 as stated: without credentials every payload of at least 100 bytes
\* gives the placeholder with success=true, no external call, and no temporary
\* file left.
C6_PlaceholderAlways ==
    (TDone /\ audioLen >= 100 /\ (~accessKey \/ ~secretKey))
    => (/\ tres.kind = "returned"
        /\ tres.success = TRUE
        /\ tres.transcription = TestTranscription
        /\ tres.error = Absent
        /\ calls = <<>> /\ ~staged
        /\ tempFile # "exists")

\* C6 amended: without credentials no external call is ever made; a payload
\* of at least 100 bytes whose temporary file was staged gets the placeholder
\* with success=true and no error, and the file is removed; when staging the
\* file raised, the result is success=false with that error.
C6_PlaceholderWhenStaged ==
    (op = "transcribe" /\ audioLen >= 100 /\ (~accessKey \/ ~secretKey))
    => (/\ calls = <<>> /\ ~staged
        /\ tpc \in {"call", "stage", "creds", "done"}
        /\ (tpc = "done" /\ staging = "ok") =>
              /\ tres.kind = "returned"
              /\ tres.success = TRUE
              /\ tres.transcription = TestTranscription
              /\ tres.error = Absent
              /\ tempFile = "removed"
        /\ (tpc = "done" /\ staging # "ok") =>
              /\ tres.kind = "returned"
              /\ tres.success = FALSE
              /\ tres.transcription = None
              /\ tres.error \in Texts)

C6_Witness ==
    /\ TDone /\ audioLen = 100 /\ accessKey /\ ~secretKey
    /\ staging = "ok" /\ tres.success

\* C7: whatever the collaborators do, process_text_input and
\* transcribe_audio_bytes return a result with a boolean success field and
\* never raise to their caller.
C7_NoExceptionEscapes ==
    /\ tres.kind \in {"pending", "returned"}
    /\ xres.kind \in {"pending", "returned"}
    /\ tpc = "done" => (tres.kind = "returned" /\ tres.success \in BOOLEAN)
    /\ xpc = "done" => (xres.kind = "returned" /\ xres.success \in BOOLEAN)

C7_Witness ==
    \/ TDone /\ staging = "write_raised" /\ tres.kind = "returned"
    \/ XDone /\ tres.kind = "pending" /\ Len(calls) = 3
             /\ calls[3].outcome = "raised"

\* C8: a job FAILED with reason r is classified by r alone: storage-not-found
\* when r contains "NoSuchBucket" (also when it contains "AccessDenied" too),
\* else the credentials text when r contains "AccessDenied", else the generic
\* text with r passed through.
C8_FailureClassified ==
    (/\ TDone /\ Len(calls) > 0
     /\ calls[Len(calls)].name = "get_transcription_job"
     /\ calls[Len(calls)].outcome = "FAILED"
     /\ calls[Len(calls)].detail # Absent)
    => LET r == calls[Len(calls)].detail
           has(n) == \E i \in 1..Len(r) : \E j \in i..Len(r) : SubSeq(r, i, j) = n
       IN  tres.transcription =
             IF has(<<"NoSuch", "Bucket">>)
             THEN <<"S3 bucket not found. Please create the bucket or check configuration.">>
             ELSE IF has(<<"Access", "Denied">>)
             THEN <<"Access denied. Please check AWS credentials and permissions.">>
             ELSE <<"Transcription failed: ", "Transcription job failed: ">> \o r

C8_Witness ==
    /\ TDone /\ Len(calls) > 0
    /\ calls[Len(calls)] =
         Call("get_transcription_job", "FAILED",
              <<"Access", "Denied", "NoSuch", "Bucket">>)
    /\ tres.transcription = BucketNotFoundText

\* C9 as stated: with is_capital_query=false the result is the unsupported
\* query answer whatever the other fields of the classification hold.
C9_NotCapitalAlwaysOther ==
    (XDone /\ Classified /\ intent.is_capital_query = <<"False">>)
    => (/\ xres.success = TRUE
        /\ xres.query_type = <<"other">>
        /\ xres.response = UnsupportedQueryResponse
        /\ xres.entity = None /\ xres.capital = None
        /\ Len(calls) = 1)

\* C9 amended: with is_capital_query=false and no error reported, the result
\* is success=true, query_type "other", the fixed unsupported-query text,
\* entity=null and capital=null, whatever entity and query_type hold, and
\* neither find_capital nor generate_response is called.
C9_NotCapitalNoError ==
    (/\ op = "text" /\ Classified
     /\ intent.is_capital_query = <<"False">>
     /\ intent.error \in {Absent, None, <<>>})
    => (/\ xpc = "done"
        /\ xres.kind = "returned"
        /\ xres.success = TRUE
        /\ xres.query_type = <<"other">>
        /\ xres.response = UnsupportedQueryResponse
        /\ xres.entity = None /\ xres.capital = None
        /\ xres.error = Absent
        /\ Len(calls) = 1)

C9_Witness ==
    /\ XDone /\ Classified
    /\ intent.is_capital_query = <<"False">>
    /\ intent.entity = <<"France">> /\ intent.query_type = <<"country">>
    /\ intent.error = Absent
    /\ xres.query_type = <<"other">>

\* C10: when the classification reports an error, process_text_input returns
\* at once with success=false, the generic apology and the reported error;
\* find_capital and generate_response are not called, whatever
\* is_capital_query and entity hold.
C10_IntentErrorReturnsAtOnce ==
    (/\ op = "text" /\ Classified
     /\ intent.error \notin {Absent, None, <<>>})
    => (/\ xpc = "done"
        /\ xres.kind = "returned"
        /\ xres.success = FALSE
        /\ xres.response = IntentApology
        /\ xres.error = intent.error
        /\ Len(calls) = 1)

C10_Witness ==
    /\ XDone /\ Classified
    /\ intent.error = <<"Access", "Denied">>
    /\ intent.is_capital_query = <<"True">> /\ intent.entity = <<"France">>
    /\ xres.success = FALSE

\* A capital query with no reported error and an entity, for which
\* find_capital returned `capital`.
LookedUp ==
    /\ op = "text" /\ Classified
    /\ intent.error \in {Absent, None, <<>>}
    /\ intent.is_capital_query = <<"True">>
    /\ intent.entity \notin {Absent, None, <<>>}
    /\ Len(calls) >= 2
    /\ calls[2] = Call("find_capital", "ok", intent.entity)

\* C11: for a capital query whose entity e the dataset maps to c, once
\* generate_response has returned, the result is success=true, capital=c,
\* entity=e unchanged, query_type the classifier's, and response the output of
\* generate_response(query_type, e, c), which was called exactly once.
C11_FoundCapital ==
    (/\ LookedUp /\ xpc = "done"
     /\ capital \notin {None, <<>>}
     /\ \A i \in DOMAIN calls : calls[i].outcome # "raised")
    => (/\ xres.kind = "returned"
        /\ xres.success = TRUE
        /\ xres.capital = capital
        /\ xres.entity = intent.entity
        /\ xres.query_type = intent.query_type
        /\ xres.response = response
        /\ xres.error = Absent
        /\ Len(calls) = 3
        /\ calls[3].name = "generate_response"
        /\ calls[3].detail = intent.query_type \o intent.entity \o capital)

C11_Witness ==
    /\ LookedUp /\ xpc = "done"
    /\ intent.entity = <<"France">> /\ intent.query_type = <<"country">>
    /\ capital = <<"Paris">>
    /\ response = <<"The capital of France is Paris.">>
    /\ xres.success = TRUE /\ xres.capital = <<"Paris">>

\* C12: for a capital query whose entity e is not in the dataset, the result
\* is success=true, capital=null, entity=e, query_type the classifier's and a
\* response text that contains e; generate_response is not called.
C12_UnknownEntity ==
    (/\ LookedUp /\ capital \in {None, <<>>})
    => (/\ xpc = "done"
        /\ xres.kind = "returned"
        /\ xres.success = TRUE
        /\ xres.capital = None
        /\ xres.entity = intent.entity
        /\ xres.query_type = intent.query_type
        /\ \E i \in DOMAIN xres.response :
               SubSeq(xres.response, i, i + Len(intent.entity) - 1)
                   = intent.entity
        /\ xres.error = Absent
        /\ Len(calls) = 2)

C12_Witness ==
    /\ LookedUp /\ xpc = "done"
    /\ intent.entity = <<"Atlantis">> /\ intent.query_type = <<"state">>
    /\ capital = None
    /\ xres.success = TRUE /\ xres.capital = None
    /\ xres.entity = <<"Atlantis">>

\* C13: the response text of every process_text_input result is a non-empty
\* string, whatever the collaborators return or raise.
C13_ResponseNeverEmpty ==
    (op = "text" /\ xpc = "done")
    => xres.response \notin {Absent, None, <<>>}

\* C14: process_voice_input transcribes the audio first; when transcription
\* fails it returns success=false with transcribed_text=null and calls neither
\* the classifier nor synthesis; when it succeeds it passes the transcript to
\* process_text_input and returns that result's fields with transcribed_text.
C14_VoiceStages ==
    (op = "voice" /\ vpc = "done" /\ audioLen >= 100)
    => (/\ tpc = "done"
        /\ tres.success = FALSE
               => (/\ vres.success = FALSE
                   /\ vres.transcribed_text = None
                   /\ calls = <<>>)
        /\ tres.success = TRUE
               => (/\ xpc = "done"
                   /\ vres.transcribed_text = tres.transcription
                   /\ vres.response = xres.response
                   /\ vres.success = xres.success))

\* A failure result with a non-empty response text and a non-null error,
\* whose response text does not contain the error message.
Apologises(r) ==
    /\ r.response \notin {Absent, None, <<>>}
    /\ r.error \notin {Absent, None}
    /\ r.error # <<>> => ~Contains(r.response, r.error)

\* C15: every failure result delivered to a caller (by process_text_input, by
\* process_voice_input, in a reply of the /ws handler) carries a non-empty
\* response text and a non-null error, and the response text does not contain
\* the error message.
C15_FailuresApologise ==
    /\ (xres.kind = "returned" /\ xres.success = FALSE) => Apologises(xres)
    /\ (vres.kind = "returned" /\ vres.success = FALSE) => Apologises(vres)
    /\ \A i \in DOMAIN sends :
           (sends[i].outcome = "delivered" /\ sends[i].body.success = FALSE)
               => Apologises(sends[i].body)

\* The replies the client of the /ws handler got, in order.
Delivered == SelectSeq(sends, LAMBDA s : s.outcome = "delivered")

\* C20: in the /ws handler every message received gets exactly one reply
\* before the next is received, in receive order; a message that cannot be
\* decoded gets the reply {success:false, error} and the loop goes on; a client
\* disconnect, also during a send, ends the handler with no further send and
\* no exception leaving it.
C20_WsReplies ==
    op = "ws" =>
        /\ (connected /\ wpc = "receive") => Len(Delivered) = Len(received)
        /\ \A i \in DOMAIN Delivered :
               /\ Delivered[i].to = i
               /\ (received[i] % 4 = 1) =>
                      (/\ Delivered[i].body.success = FALSE
                       /\ Delivered[i].body.error \notin {Absent, None})
        /\ Cardinality({i \in DOMAIN sends :
                            sends[i].outcome \in {"WebSocketDisconnect",
                                                  "RuntimeError"}}) <= 1
        /\ wend # "raised"

\* The transcript increments among the items yielded.
Increments == SelectSeq(out, LAMBDA x : x.item = Placeholder)

\* C16: start_realtime_transcription yields one increment per chunk consumed,
\* in chunk order, the k-th after the k-th chunk is consumed and before the
\* (k+1)-th is requested; when the stream ends normally nothing more is
\* yielded.
C16_IncrementPerChunk ==
    op = "stream" =>
        /\ \A k \in DOMAIN Increments : Increments[k].chunk = k
        /\ Len(Increments) <= consumed
        /\ consumed <= Len(Increments) + 1
        /\ requested <= Len(Increments) + 1
        /\ spc \in {"awaiting_chunk", "yielded"} => Len(Increments) = consumed
        /\ sdone = "ended" => (Len(out) = consumed /\ Increments = out)

C16_Witness ==
    /\ op = "stream" /\ sdone = "ended"
    /\ consumed = 2 /\ requested = 3
    /\ out = << [item |-> Placeholder, chunk |-> 1],
                [item |-> Placeholder, chunk |-> 2] >>

\* C17: once start_realtime_transcription is cancelled or closed, or its
\* audio stream has raised, it consumes no further chunk and yields no further
\* item.
C17_SilentAfterInterruption ==
    (op = "stream" /\ cut.why # "none")
    => (/\ Len(out) = cut.emitted
        /\ consumed = cut.consumed)

JobCalls ==
    SelectSeq(calls, LAMBDA c : c.name \in {"upload_file",
                                            "start_transcription_job",
                                            "get_transcription_job",
                                            "delete_object"})

\* C19: within one transcribe_audio_bytes call the S3 and Transcribe calls are
\* a prefix of upload_file once, start_transcription_job once,
\* get_transcription_job one or more times, then at most one delete_object;
\* start only follows a successful upload, polls only a successful start and
\* no terminal status, and a call that raised is not issued again.
C19_JobLifecycle ==
    op = "transcribe" =>
        /\ Len(JobCalls) >= 1 => JobCalls[1].name = "upload_file"
        /\ Len(JobCalls) >= 2 =>
               (/\ JobCalls[2].name = "start_transcription_job"
                /\ JobCalls[1].outcome = "ok")
        /\ Len(JobCalls) >= 3 =>
               (/\ JobCalls[3].name = "get_transcription_job"
                /\ JobCalls[2].outcome = "ok")
        /\ \A i \in DOMAIN JobCalls :
               i >= 4 =>
                  (/\ JobCalls[i].name \in {"get_transcription_job",
                                             "delete_object"}
                   /\ JobCalls[i - 1].name = "get_transcription_job"
                   /\ JobCalls[i].name = "get_transcription_job"
                          => JobCalls[i - 1].outcome = "IN_PROGRESS"
                   /\ JobCalls[i].name = "delete_object"
                          => JobCalls[i - 1].outcome = "COMPLETED")
        /\ \A i \in DOMAIN JobCalls :
               JobCalls[i].outcome = "raised" => i = Len(JobCalls)

C19_Witness ==
    /\ TDone
    /\ Len(JobCalls) = 5
    /\ JobCalls[3].outcome = "IN_PROGRESS"
    /\ JobCalls[4].outcome = "COMPLETED"
    /\ JobCalls[5] = Call("delete_object", "ok", None)

\* C21: with concurrent transcribe_audio_bytes calls on one TranscribeClient,
\* each call's temporary file, staged object and job stay its own while it is
\* in flight: no other call overwrites or deletes them, and the transcript a
\* call returns is of its own audio.
C21_CallsIsolated ==
    op = "concurrent" =>
        \A p \in Calls :
            /\ cpc[p] \in {"upload", "start", "poll", "sleep", "delete"}
                   => files[ctemp[p]] = p
            /\ cpc[p] \in {"start", "poll", "sleep", "delete"}
                   => bucket[ckey[p]] = p
            /\ cpc[p] \in {"poll", "sleep", "delete"}
                   => jobs[cjob[p]].media = ckey[p]
            /\ cres[p] \in Calls => cres[p] = p

\* C22: when the job COMPLETED, the transcript was extracted and delete_object
\* raises, the call still returns success=true with that transcript, and the
\* temporary file is removed.
C22_CleanupFailureNotMasking ==
    (/\ op = "transcribe"
     /\ Len(calls) > 0
     /\ calls[Len(calls)] = Call("delete_object", "raised", None))
    => (/\ tpc = "done"
        /\ tres.kind = "returned"
        /\ tres.success = TRUE
        /\ tres.transcription = transcription
        /\ tres.error = Absent
        /\ tempFile = "removed"
        /\ staged = TRUE)

C22_Witness ==
    /\ op = "transcribe" /\ tpc = "done"
    /\ Len(calls) >= 2
    /\ calls[Len(calls)] = Call("delete_object", "raised", None)
    /\ calls[Len(calls) - 1] = Call("fetch_transcript", "ok", None)
    /\ transcription = <<"x">>
    /\ tres.success = TRUE /\ tres.transcription = <<"x">>
    /\ tempFile = "removed"

\* C23: polling is bounded by a fixed limit (here: MaxPolls calls): when the
\* service has reported a non-terminal status that many times the call polls
\* no more and returns a failure.
C23_PollingBounded ==
    (/\ op = "transcribe"
     /\ nPolls = MaxPolls
     /\ calls[Len(calls)] = Call("get_transcription_job", "IN_PROGRESS", None))
    => (/\ tpc = "done"
        /\ tres.kind = "returned"
        /\ tres.success = FALSE
        /\ tres.error # Absent)

====
